---- MODULE Spec2Model ----
(***************************************************************************)
(* A model of implib-gen.py, the generator of static import libraries for  *)
(* POSIX shared libraries.                                                 *)
(*                                                                         *)
(* Five specifications share the module's variables:                       *)
(*   Spec     the driver main() on the ELF path without --vtables: the     *)
(*            symbol collector, the export filter, the function list and   *)
(*            the emission of the jump table and the trampolines;          *)
(*   SpecVt   the --vtables stages: class symbols, the unrelocated data    *)
(*            reader, the relocation overlay and the vtable text, in a run *)
(*            with an empty function list;                                 *)
(*   SpecDef  the def-file reader;                                         *)
(*   SpecRel  the relocation collector reading the readelf listing as      *)
(*            text (SpecVt takes the rows already parsed);                 *)
(*   SpecRun  a run with --vtables from the class symbols to the end of    *)
(*            main, with the failures of the tools and of the templates.   *)
(*                                                                         *)
(* Text is a sequence of one-character strings, so that splitting a name   *)
(* at '@', matching a line against a regular expression and sorting names  *)
(* are computed, not assumed.                                              *)
(***************************************************************************)
EXTENDS Integers, Sequences, FiniteSets, TLC

VARIABLES
    pc,               \* position of the run
    err,              \* message of the fatal error, "" while there is none
    warnings,         \* sequence of the warnings emitted so far
    \* ---- main(), ELF path
    no_weak_symbols,  \* args.no_weak_symbols
    visibility,       \* name -> "DEFAULT" | "HIDDEN", from nm -g
    symbol_list,      \* the --symbol-list file: NoList or UserList(lines)
    ptr_size,         \* cfg["Arch"]["PointerSize"]
    symbol_prefix,    \* args.symbol_prefix
    nlines,           \* lines of the readelf listing consumed so far
    toc,              \* collect_syms: the column TOC, or None
    syms,             \* the symbol table
    syms_set,         \* collect_syms: names already seen
    header_seen,      \* history: a header line was consumed by collect_syms
    vtables,          \* args.vtables
    created,          \* names of the output files opened for writing so far
    all_funs,         \* main: set of the function names
    funs,             \* main: the function list (empty until it is computed)
    tramp_file,       \* template instances written to <suffix>.tramp.S
    init_file,        \* template instances written to <suffix>.init.c
    \* ---- --vtables stages
    secs,             \* allocatable sections
    cls_syms,         \* name -> class symbol
    rels,             \* dynamic relocations, in listing order
    reloc_types,      \* cfg["Arch"]["SymbolReloc"]
    bites,            \* name -> raw bytes
    cls_data,         \* name -> slot sequence
    externs,          \* extern declarations of the vtable text, in order
    code_info,        \* generate_vtables: name -> (declarator, initializers)
    \* ---- def-file reader
    lines,            \* collect_def_exports: the lines left, reversed (a stack)
    def_file,         \* the lines of the def file, as readlines() returns them
    in_block          \* TRUE inside the inner loop of collect_def_exports

vars == <<pc, err, warnings, no_weak_symbols, visibility, symbol_list, ptr_size,
          symbol_prefix, nlines, toc, syms, syms_set, header_seen, vtables,
          created, all_funs, funs, tramp_file, init_file, secs, cls_syms, rels, reloc_types, bites,
          cls_data, externs, code_info, lines, def_file, in_block>>

mainVars == <<no_weak_symbols, visibility, symbol_list, ptr_size, symbol_prefix,
              nlines, toc, syms, syms_set, header_seen, vtables, created,
              all_funs, funs, tramp_file, init_file>>
vtVars   == <<secs, cls_syms, rels, reloc_types, bites, cls_data, externs, code_info>>
defVars  == <<lines, def_file, in_block>>

None   == "None"
\* args.symbol_list is None: no user list; else the lines of the list file
NoList == [given |-> FALSE, names |-> <<>>]
UserList(q) == [given |-> TRUE, names |-> q]

\* ------------------------------------------------------------------ bounds

MaxLines == 3      \* lines of the readelf -sW listing

\* -------------------------------------------------------------------- text

\* Code point of a character (Python compares strings by code point).
Ord(c) ==
    CASE c = "\n" -> 10 [] c = " " -> 32 [] c = ";" -> 59 [] c = "@" -> 64
      [] c = "E" -> 69 [] c = "O" -> 79 [] c = "P" -> 80 [] c = "R" -> 82
      [] c = "S" -> 83 [] c = "T" -> 84 [] c = "V" -> 86 [] c = "X" -> 88
      [] c = "_" -> 95 [] c = "a" -> 97 [] c = "b" -> 98 [] c = "c" -> 99
      [] c = "f" -> 102 [] c = "i" -> 105 [] c = "n" -> 110 [] c = "p" -> 112
      [] c = "t" -> 116 [] c = "-" -> 45 [] c = "1" -> 49 [] c = "C" -> 67
      [] c = "I" -> 73 [] c = "Z" -> 90 [] c = "e" -> 101 [] c = "x" -> 120
      [] c = "y" -> 121

\* s < t for Python strings.
RECURSIVE StrLess(_, _)
StrLess(s, t) ==
    IF t = <<>> THEN FALSE
    ELSE IF s = <<>> THEN TRUE
    ELSE IF Ord(Head(s)) # Ord(Head(t)) THEN Ord(Head(s)) < Ord(Head(t))
    ELSE StrLess(Tail(s), Tail(t))

\* sorted(S) for a set of strings.
RECURSIVE SortedNames(_)
SortedNames(S) ==
    IF S = {} THEN <<>>
    ELSE LET m == CHOOSE x \in S : \A y \in S \ {x} : StrLess(x, y)
         IN  <<m>> \o SortedNames(S \ {m})

\* "@" in name, "@@" in name
HasAt(name)       == \E i \in 1..Len(name) : name[i] = "@"
HasDoubleAt(name) == \E i \in 1..(Len(name) - 1) : name[i] = "@" /\ name[i + 1] = "@"

FirstAt(name) == CHOOSE i \in 1..Len(name) :
                    name[i] = "@" /\ \A j \in 1..(i - 1) : name[j] # "@"

\* name, ver = re.split(r"@+", name), for a name with one run of '@'
SplitName(name) == SubSeq(name, 1, FirstAt(name) - 1)
SplitVersion(name) ==
    LET rest == SubSeq(name, FirstAt(name), Len(name))
        k    == CHOOSE i \in 1..(Len(rest) + 1) :
                    /\ \A j \in 1..(i - 1) : rest[j] = "@"
                    /\ (i <= Len(rest) => rest[i] # "@")
    IN  SubSeq(rest, k, Len(rest))

\* ----------------------------------------------------- inputs of the ELF path

nA     == <<"a">>
nB     == <<"b">>
nC     == <<"c">>
nInit  == <<"_", "i", "n", "i", "t">>
nFini  == <<"_", "f", "i", "n", "i">>

Row(name, type, bind, ndx) ==
    [kind |-> "row", Name |-> name, Type |-> type, Bind |-> bind, Ndx |-> ndx]

\* Rows of the wide symbol listing, already split into their cells.
SymRows ==
    { Row(nA, "FUNC", "GLOBAL", "12"),
      Row(nB, "FUNC", "WEAK", "12"),
      Row(nC, "FUNC", "LOCAL", "12"),
      Row(nC, "FUNC", "GLOBAL", "UND"),
      Row(nC, "NOTYPE", "GLOBAL", "12"),
      Row(nB, "OBJECT", "GLOBAL", "12"),
      Row(nInit, "FUNC", "GLOBAL", "12"),
      Row(<<>>, "FUNC", "GLOBAL", "12"),
      Row(<<"a", "@", "@", "V">>, "FUNC", "GLOBAL", "12"),
      Row(<<"a", "@", "V">>, "FUNC", "GLOBAL", "12"),
      Row(<<"c", "@", "V">>, "IFUNC", "GLOBAL", "12") }

ReadelfLines == SymRows \cup {[kind |-> "header"], [kind |-> "blank"]}

\* nm -g: the names it lists with an upper-case and with a lower-case type code.
VisibilityMaps ==
    { [n \in {} |-> "DEFAULT"],
      [n \in {nA, nB} |-> IF n = nA THEN "HIDDEN" ELSE "DEFAULT"] }

\* The --symbol-list file after '#' comments and blanks are stripped from each line.
SymbolLists ==
    {NoList} \cup {UserList(q) : q \in { <<>>, <<nB, nA>>, <<nA, <<>>, nC>>,
                                        <<nC, nB, nA>>, <<nA, nA>> }}

PointerSizes   == {4, 8}
SymbolPrefixes == { <<>>, <<"p", "_">> }

nZTV == <<"_", "Z", "T", "V", "1", "C">>
nZTI == <<"_", "Z", "T", "I", "1", "C">>
nZTS == <<"_", "Z", "T", "S", "1", "C">>

\* c++filt: the special names of class C are demangled, a C name is left as
\* it is.
Demangle(name) ==
    CASE name = nZTV -> "vtable for C"
      [] name = nZTI -> "typeinfo for C"
      [] name = nZTS -> "typeinfo name for C"
      [] OTHER -> name

\* ------------------------------------------------------------ collect_syms

\* visibility.get(name, "DEFAULT")
VisibilityOf(name) ==
    IF name \in DOMAIN visibility THEN visibility[name] ELSE "DEFAULT"

\* The symbol stored for a row whose name was not seen before.
StoredSym(row) ==
    LET raw  == row.Name
        name == IF HasAt(raw) THEN SplitName(raw) ELSE raw
    IN  [Name       |-> name,
         Type       |-> row.Type,
         Bind       |-> row.Bind,
         Ndx        |-> row.Ndx,
         Default    |-> IF HasAt(raw) THEN HasDoubleAt(raw) ELSE TRUE,
         Version    |-> IF HasAt(raw) THEN SplitVersion(raw) ELSE None,
         Visibility |-> VisibilityOf(name)]

\* A row is skipped when its name is empty or only a name seen before.
IsSkippedRow_EmptyOnly(name, seen) == name = <<>>

\* "if not name: continue" and "if name in syms_set: continue": the name is
\* the Name cell as printed, with its @version suffix.
IsSkippedRow(name, seen) == name = <<>> \/ name \in seen

\* One iteration of the loop over readelf_out.splitlines().
CollectSymsLine(line) ==
    /\ pc = "collect_syms"
    /\ nlines < MaxLines
    /\ nlines' = nlines + 1
    /\ header_seen' = (header_seen \/ line.kind = "header")
    /\ IF line.kind = "blank"
       THEN /\ toc' = None
            /\ UNCHANGED <<syms, syms_set, pc, err>>
       ELSE IF line.kind = "header"
       THEN IF toc # None
            THEN /\ pc' = "error"
                 /\ err' = "multiple headers in output of readelf"
                 /\ UNCHANGED <<toc, syms, syms_set>>
            ELSE /\ toc' = "toc"
                 /\ UNCHANGED <<syms, syms_set, pc, err>>
       ELSE IF toc # None
       THEN IF IsSkippedRow(line.Name, syms_set)
            THEN UNCHANGED <<toc, syms, syms_set, pc, err>>
            ELSE /\ syms_set' = syms_set \cup {line.Name}
                 /\ syms' = Append(syms, StoredSym(line))
                 /\ UNCHANGED <<toc, pc, err>>
       ELSE UNCHANGED <<toc, syms, syms_set, pc, err>>
    /\ UNCHANGED <<warnings, no_weak_symbols, visibility, symbol_list, ptr_size,
                   symbol_prefix, vtables, created, all_funs, funs, tramp_file,
                   init_file>>
    /\ UNCHANGED <<vtVars, defVars>>

\* The end of the listing: the check after the loop, and the return.
CollectSymsEnd ==
    /\ pc = "collect_syms"
    /\ IF toc = None
       THEN /\ pc' = "error"
            /\ err' = "failed to analyze symbols"
       ELSE /\ pc' = "select"
            /\ UNCHANGED err
    /\ UNCHANGED <<warnings, mainVars, vtVars, defVars>>

\* ------------------------------------------------------------------ main

\* is_exported without the test of the section index.
is_exported_AnyNdx(s) ==
    /\ s.Bind # "LOCAL"
    /\ s.Visibility # "HIDDEN"
    /\ s.Type # "NOTYPE"
    /\ s.Name \notin {<<>>, nInit, nFini}
    /\ (no_weak_symbols => s.Bind # "WEAK")

is_exported(s) ==
    /\ s.Bind # "LOCAL"
    /\ s.Visibility # "HIDDEN"
    /\ s.Type # "NOTYPE"
    /\ s.Ndx # "UND"
    /\ s.Name \notin {<<>>, nInit, nFini}
    /\ (no_weak_symbols => s.Bind # "WEAK")

\* syms[i]["Demangled Name"] = name
WithDemangled(s) ==
    [k \in DOMAIN s \cup {"Demangled"} |->
        IF k = "Demangled" THEN Demangle(s.Name) ELSE s[k]]

\* vtables are off in Spec: a data symbol is any OBJECT.
is_data_symbol(s) == s.Type = "OBJECT"

\* Lines of the symbol list file that are left non-empty.
ReadSymbolList(file) ==
    IF ~file.given THEN NoList
    ELSE UserList(SelectSeq(file.names, LAMBDA l : l # <<>>))

SeqToSet(q) == {q[i] : i \in 1..Len(q)}

\* The names of the default-version FUNC symbols of a filtered table.
AllFuns(table) ==
    {table[i].Name : i \in {j \in 1..Len(table) :
                              table[j].Type = "FUNC" /\ table[j].Default}}

\* The function list sorted also when a user list is given.
SelectFuns_Sorted(user, F) ==
    IF ~user.given THEN SortedNames(F)
    ELSE SortedNames(SeqToSet(user.names) \cap F)

\* The function list for a user list (or NoList) and a function set.
SelectFuns(user, F) ==
    IF ~user.given THEN SortedNames(F)
    ELSE SelectSeq(user.names, LAMBDA n : n \in F)

MissingFuns(user, F) == SelectSeq(user.names, LAMBDA n : n \notin F)

\* Demangling, the export filter, the data-symbol warning, the function set and
\* the function list.
CollectFuns ==
    /\ pc = "select"
    /\ LET demangled == [i \in 1..Len(syms) |-> WithDemangled(syms[i])]
           exported  == SelectSeq(demangled, is_exported)
           data      == SelectSeq(exported, is_data_symbol)
           versioned == \E i \in 1..Len(exported) :
                            exported[i].Type = "FUNC" /\ ~exported[i].Default
           F         == AllFuns(exported)
           user      == ReadSymbolList(symbol_list)
           w1 == IF data # <<>>
                 THEN <<[kind |-> "data symbols",
                         names |-> [i \in 1..Len(data) |-> data[i].Name]]>>
                 ELSE <<>>
           w2 == IF versioned THEN <<[kind |-> "versioned symbols", names |-> <<>>]>>
                 ELSE <<>>
           w3 == IF ~user.given
                 THEN IF F = {} THEN <<[kind |-> "no public functions", names |-> <<>>]>>
                      ELSE <<>>
                 ELSE IF MissingFuns(user, F) # <<>>
                      THEN <<[kind |-> "missing functions",
                              names |-> MissingFuns(user, F)]>>
                      ELSE <<>>
       IN  /\ syms' = exported
           /\ all_funs' = F
           /\ funs' = SelectFuns(user, F)
           /\ warnings' = warnings \o w1 \o w2 \o w3
    /\ pc' = "emit_table"
    /\ UNCHANGED <<err, no_weak_symbols, visibility, symbol_list, ptr_size,
                   symbol_prefix, nlines, toc, syms_set, header_seen, vtables,
                   created, tramp_file, init_file>>
    /\ UNCHANGED <<vtVars, defVars>>

\* table.S.tpl, substituted
TableText(n) == [tpl |-> "table", table_size |-> ptr_size * (n + 1)]

\* A trampoline whose offset counts the slots from 1.
TrampText_FromOne(i, name) ==
    [tpl |-> "trampoline", sym |-> symbol_prefix \o name,
     offset |-> (i + 1) * ptr_size, number |-> i]

\* trampoline.S.tpl, substituted for the function at index i (from 0)
TrampText(i, name) ==
    [tpl |-> "trampoline", sym |-> symbol_prefix \o name,
     offset |-> i * ptr_size, number |-> i]

\* The output files, by the end of their names.
fTramp == "tramp.S"
fInit  == "init.c"

Templates == {"table.S.tpl", "trampoline.S.tpl", "init.c.tpl"}

\* The table: <suffix>.tramp.S is opened for writing, table.S.tpl is read and
\* its text is written.
EmitTable ==
    /\ pc = "emit_table"
    /\ created' = created \cup {fTramp}
    /\ tramp_file' = <<TableText(Len(funs))>>
    /\ pc' = "emit_tramp"
    /\ UNCHANGED <<err, warnings, no_weak_symbols, visibility, symbol_list, ptr_size,
                   symbol_prefix, nlines, toc, syms, syms_set, header_seen, vtables,
                   all_funs, funs, init_file>>
    /\ UNCHANGED <<vtVars, defVars>>

\* One iteration of "for i, name in enumerate(funs)"; the file holds the table
\* and the i trampolines written so far.
EmitTramp ==
    /\ pc = "emit_tramp"
    /\ Len(tramp_file) - 1 < Len(funs)
    /\ LET i == Len(tramp_file) - 1
       IN  tramp_file' = Append(tramp_file, TrampText(i, funs[i + 1]))
    /\ UNCHANGED <<pc, err, warnings, no_weak_symbols, visibility, symbol_list,
                   ptr_size, symbol_prefix, nlines, toc, syms, syms_set,
                   header_seen, vtables, created, all_funs, funs, init_file>>
    /\ UNCHANGED <<vtVars, defVars>>

\* <suffix>.init.c is opened for writing, init.c.tpl is read and its text is
\* written; with --vtables the vtable text is generated next, into the same
\* file.
EmitInit ==
    /\ pc = "emit_tramp"
    /\ Len(tramp_file) - 1 = Len(funs)
    /\ created' = created \cup {fInit}
    /\ init_file' = <<[tpl |-> "init", sym_names |-> funs]>>
    /\ pc' = IF vtables THEN "generate_vtables" ELSE "done"
    /\ UNCHANGED <<err, warnings, no_weak_symbols, visibility, symbol_list, ptr_size,
                   symbol_prefix, nlines, toc, syms, syms_set, header_seen, vtables,
                   all_funs, funs, tramp_file>>
    /\ UNCHANGED <<vtVars, defVars>>

\* A template found missing before any output file is opened.
MissingTemplate_BeforeOpen(t) ==
    /\ \/ t = "table.S.tpl" /\ pc = "emit_table"
       \/ t = "trampoline.S.tpl" /\ pc = "emit_tramp" /\ Len(tramp_file) = 1
       \/ t = "init.c.tpl" /\ pc = "emit_tramp" /\ Len(tramp_file) - 1 = Len(funs)
    /\ pc' = "error"
    /\ err' = "FileNotFoundError"
    /\ UNCHANGED <<warnings, mainVars, vtVars, defVars>>

\* open(template, "r") raises FileNotFoundError. table.S.tpl and init.c.tpl
\* are opened inside the "with" that has already opened the output file;
\* trampoline.S.tpl is opened after the table was written.
MissingTemplate(t) ==
    /\ CASE t = "table.S.tpl" ->
              /\ pc = "emit_table"
              /\ created' = created \cup {fTramp}
         [] t = "trampoline.S.tpl" ->
              /\ pc = "emit_tramp"
              /\ Len(tramp_file) = 1
              /\ UNCHANGED created
         [] t = "init.c.tpl" ->
              /\ pc = "emit_tramp"
              /\ Len(tramp_file) - 1 = Len(funs)
              /\ created' = created \cup {fInit}
    /\ pc' = "error"
    /\ err' = "FileNotFoundError"
    /\ UNCHANGED <<warnings, no_weak_symbols, visibility, symbol_list, ptr_size,
                   symbol_prefix, nlines, toc, syms, syms_set, header_seen, vtables,
                   all_funs, funs, tramp_file, init_file>>
    /\ UNCHANGED <<vtVars, defVars>>

\* run(): the external program returns a non-zero code or writes to stderr.
\* The programs run before their output is parsed.
RunFails ==
    /\ \/ pc = "collect_syms" /\ nlines = 0
       \/ pc = "cls_syms"
       \/ pc = "collect_relocs" /\ rels = <<>>
    /\ pc' = "error"
    /\ err' = "failed with retcode"
    /\ UNCHANGED <<warnings, mainVars, vtVars, defVars>>

\* ------------------------------------------------ inputs of the vtable stages

MaxRels == 2       \* rows of the readelf -rW listing

Min(a, b) == IF a < b THEN a ELSE b

\* The byte of the binary file at a position.
FileByte(pos) == (pos * 5 + 1) % 256

\* f.seek(off); f.read(n)
FileRead(off, n) == [i \in 1..n |-> FileByte(off + i - 1)]

Section(name, address, off, size) ==
    [Name |-> name, Address |-> address, Off |-> off, Size |-> size]

secRelRo  == Section(".data.rel.ro", 32, 8, 80)
secRoData == Section(".rodata", 128, 104, 16)
secInit   == Section(".init_array", 32, 4, 8)

\* The allocatable sections readelf -SW lists.
SectionTables == { <<secRelRo, secRoData>>, <<secInit, secRelRo, secRoData>> }

ClassSym(name, value, size) ==
    [Name |-> name, Value |-> value, Size |-> size, Demangled |-> Demangle(name)]

\* The exported symbols of the library whose demangled names are those of a
\* vtable, a typeinfo or a typeinfo name, for pointer size P.
ClassSymbols(P) ==
    {ClassSym(nZTV, 32, sz) : sz \in {0, 2 * P, 2 * P + 1, 5 * P}}
      \cup {ClassSym(nZTI, 32 + 6 * P, P + 3)}
      \cup {ClassSym(nZTS, 128, sz) : sz \in {0, 3}}

nExt  == <<"e", "x", "t">>
nExtV == <<"e", "x", "t", "@", "V">>
nExy  == <<"e", "x", "y">>

Rel(offset, type, sym, addend) ==
    [Offset |-> offset, Type |-> type, Target |-> <<sym, addend>>]

\* A row whose target cell is empty: the cell stays "", the empty text.
NoTargetRel(offset, type) == [Offset |-> offset, Type |-> type, Target |-> <<>>]

\* Rows of the dynamic relocation listing, for pointer size P.
RelRows(P) ==
    { Rel(32, "R_ABS", nExt, 0),
      Rel(33, "R_ABS", nExy, 8),
      Rel(34, "R_ABS", nExt, 0),
      Rel(32 + P, "R_ABS", nExt, 0),
      Rel(32 + P, "R_RELATIVE", nExy, 0),
      Rel(32 + 2 * P, "R_ABS", nExtV, 0),
      Rel(32 + 6 * P, "R_ABS", nZTV, 16),
      Rel(128, "R_ABS", nExt, 0) }

\* The rows and class symbols of SpecRun: a relocation in the vtable, one of
\* a type that is not accepted, and one whose target cell is empty.
RunRelRows(P) ==
    { Rel(32, "R_ABS", nExt, 0),
      Rel(32 + P, "R_RELATIVE", nExy, 0),
      NoTargetRel(32 + P, "R_ABS") }

RunClassSymbols(P) == {ClassSym(nZTV, 32, 2 * P), ClassSym(nZTS, 128, 3)}

\* The function list main has computed before the vtable stages.
RunFuns == {<<>>, <<nA>>}

\* cfg["Arch"]["SymbolReloc"]
SymbolRelocTypes == {"R_ABS"}

\* ------------------------------------------------------ main, class symbols

\* re.match(r"^(vtable|typeinfo|typeinfo name) for (.*)", demangled)
IsClassSymbolName(d) ==
    d \in {"vtable for C", "typeinfo for C", "typeinfo name for C"}

\* One iteration of "for s in syms" that finds a class symbol.
AddClassSym(s) ==
    /\ pc = "cls_syms"
    /\ IsClassSymbolName(s.Demangled)
    /\ s.Name \notin DOMAIN cls_syms
    /\ cls_syms' = (s.Name :> s) @@ cls_syms
    /\ UNCHANGED <<pc, err, warnings, mainVars, defVars>>
    /\ UNCHANGED <<secs, rels, reloc_types, bites, cls_data, externs, code_info>>

\* ---------------------------------------------------- read_unrelocated_data

is_symbol_in_section(sym, sec) ==
    LET sec_end == sec.Address + sec.Size
    IN  /\ sec.Address <= sym.Value /\ sym.Value < sec_end
        /\ sym.Value + sym.Size <= sec_end

SectionsOf(sym, table) == SelectSeq(table, LAMBDA sec : is_symbol_in_section(sym, sec))

\* The file position the bytes of a symbol are read from.
SeekPosition(sym, sec) == sec.Off

UnrelocatedBytes(sym, sec) == FileRead(SeekPosition(sym, sec), sym.Size)

ReadUnrelocatedData ==
    /\ pc = "cls_syms"
    /\ IF \E n \in DOMAIN cls_syms : Len(SectionsOf(cls_syms[n], secs)) # 1
       THEN /\ pc' = "error"
            /\ err' = "failed to locate section for interval"
            /\ UNCHANGED bites
       ELSE /\ bites' = [n \in DOMAIN cls_syms |->
                            UnrelocatedBytes(cls_syms[n], SectionsOf(cls_syms[n], secs)[1])]
            /\ pc' = "collect_relocs"
            /\ UNCHANGED err
    /\ UNCHANGED <<warnings, mainVars, defVars>>
    /\ UNCHANGED <<secs, cls_syms, rels, reloc_types, cls_data, externs, code_info>>

\* ------------------------------------------------------------ collect_relocs

\* One row of the relocation listing, appended to rels.
CollectRelocsRow(r) ==
    /\ pc = "collect_relocs"
    /\ Len(rels) < MaxRels
    /\ rels' = Append(rels, r)
    /\ UNCHANGED <<pc, err, warnings, mainVars, defVars>>
    /\ UNCHANGED <<secs, cls_syms, reloc_types, bites, cls_data, externs, code_info>>

\* ---------------------------------------------------- collect_relocated_data

\* b[lo:hi] of Python, positions counted from 0
PySlice(b, lo, hi) ==
    IF lo >= Len(b) \/ hi <= lo THEN <<>> ELSE SubSeq(b, lo + 1, Min(hi, Len(b)))

\* int.from_bytes(bs, byteorder="little"): the number is kept as its base-256
\* numeral, least significant digit first, without leading zero digits (a
\* word of 8 bytes does not fit the checker's integers).
RECURSIVE FromBytesLittle(_)
FromBytesLittle(bs) ==
    IF bs = <<>> THEN <<>>
    ELSE IF bs[Len(bs)] = 0 THEN FromBytesLittle(SubSeq(bs, 1, Len(bs) - 1))
    ELSE bs

IsTypeinfoName(sym) == sym.Demangled = "typeinfo name for C"

\* A range that leaves out the last, partial word.
ByteRange_WholeWords(b, P) == [k \in 1..(Len(b) \div P) |-> (k - 1) * P]

\* range(0, len(b), ptr_size)
ByteRange(b, P) == [k \in 1..((Len(b) + P - 1) \div P) |-> (k - 1) * P]

\* The word read at the loop variable i.
WordAt(b, i, P) == FromBytesLittle(PySlice(b, i * P, (i + 1) * P))

\* The slots before the overlay.
InitialSlots(sym, b, P) ==
    IF IsTypeinfoName(sym)
    THEN [k \in 1..Len(b) |-> <<"byte", b[k]>>]
    ELSE LET range == ByteRange(b, P)
         IN  [k \in 1..Len(range) |-> <<"offset", WordAt(b, range[k], P)>>]

\* The test without the relocation type.
AcceptsReloc_AnyType(rel, sym, types) ==
    /\ sym.Value <= rel.Offset
    /\ rel.Offset < sym.Value + sym.Size

\* rel["Type"] in reloc_types and start <= rel["Offset"] < finish
AcceptsReloc(rel, sym, types) ==
    /\ rel.Type \in types
    /\ sym.Value <= rel.Offset
    /\ rel.Offset < sym.Value + sym.Size

\* The index counted in bytes, without the division by the pointer size.
SlotIndex_Bytes(rel, sym, P) == rel.Offset - sym.Value

\* i = (rel["Offset"] - start) // ptr_size
SlotIndex(rel, sym, P) == (rel.Offset - sym.Value) \div P

\* The loop over rels with a break after the first relocation it applies.
RECURSIVE Overlay_FirstOnly(_, _, _, _, _)
Overlay_FirstOnly(data, rs, sym, P, types) ==
    IF rs = <<>> THEN [failed |-> FALSE, slots |-> data]
    ELSE LET rel == Head(rs)
         IN  IF AcceptsReloc(rel, sym, types)
             THEN IF SlotIndex(rel, sym, P) < Len(data)
                  THEN [failed |-> FALSE,
                        slots  |-> [data EXCEPT ![SlotIndex(rel, sym, P) + 1] =
                                                    <<"reloc", rel>>]]
                  ELSE [failed |-> TRUE, slots |-> data]
             ELSE Overlay_FirstOnly(data, Tail(rs), sym, P, types)

\* The loop over rels, on the slot sequence of one symbol: the slots, and whether
\* "assert i < len(data[name])" failed.
RECURSIVE Overlay(_, _, _, _, _)
Overlay(data, rs, sym, P, types) ==
    IF rs = <<>> THEN [failed |-> FALSE, slots |-> data]
    ELSE LET rel == Head(rs)
         IN  IF AcceptsReloc(rel, sym, types)
             THEN IF SlotIndex(rel, sym, P) < Len(data)
                  THEN Overlay([data EXCEPT ![SlotIndex(rel, sym, P) + 1] = <<"reloc", rel>>],
                               Tail(rs), sym, P, types)
                  ELSE [failed |-> TRUE, slots |-> data]
             ELSE Overlay(data, Tail(rs), sym, P, types)

\* data[name] of collect_relocated_data for one symbol
RelocatedData(sym, b, rs, P, types) ==
    IF IsTypeinfoName(sym) THEN [failed |-> FALSE, slots |-> InitialSlots(sym, b, P)]
    ELSE Overlay(InitialSlots(sym, b, P), rs, sym, P, types)

CollectRelocatedData ==
    /\ pc = "collect_relocs"
    /\ LET data == [n \in DOMAIN cls_syms |->
                       RelocatedData(cls_syms[n], bites[n], rels, ptr_size, reloc_types)]
       IN  IF \E n \in DOMAIN data : data[n].failed
           THEN /\ pc' = "error"
                /\ err' = "AssertionError"
                /\ UNCHANGED cls_data
           ELSE /\ cls_data' = [n \in DOMAIN data |-> data[n].slots]
                /\ pc' = "emit_table"
                /\ UNCHANGED err
    /\ UNCHANGED <<warnings, mainVars, defVars>>
    /\ UNCHANGED <<secs, cls_syms, rels, reloc_types, bites, externs, code_info>>

\* --------------------------------------------------------- generate_vtables

\* re.sub(r"@.*", "", sym_name)
StripVersion(name) == IF HasAt(name) THEN SplitName(name) ELSE name

\* The names added to the set "printed" when an extern is emitted.
PrintedAfter(printed, sym_name) == printed

\* The extern declarations for the slots of one symbol, given what was emitted
\* before (the result is everything emitted so far).
RECURSIVE ExternsOfSlots(_, _, _)
ExternsOfSlots(data, printed, out) ==
    IF data = <<>> THEN <<printed, out>>
    ELSE LET slot == Head(data)
             sym_name == StripVersion(slot[2].Target[1])
         IN  IF slot[1] = "reloc" /\ sym_name \notin DOMAIN cls_syms
                                  /\ sym_name \notin printed
             THEN ExternsOfSlots(Tail(data), PrintedAfter(printed, sym_name),
                                 Append(out, sym_name))
             ELSE ExternsOfSlots(Tail(data), printed, out)

\* The loop "for name, data in sorted(cls_data.items())" that prints externs.
RECURSIVE ExternsOfNames(_, _, _)
ExternsOfNames(names, printed, out) ==
    IF names = <<>> THEN out
    ELSE LET r == ExternsOfSlots(cls_data[Head(names)], printed, out)
         IN  ExternsOfNames(Tail(names), r[1], r[2])

c_types(typ) ==
    CASE typ = "reloc" -> "const void *"
      [] typ = "byte" -> "unsigned char"
      [] typ = "offset" -> "size_t"

\* The initializer of one slot.
SlotInitializer(slot) ==
    IF slot[1] # "reloc" THEN <<slot[2], "UL">>
    ELSE <<"(const char *)&", StripVersion(slot[2].Target[1]), "+", slot[2].Target[2]>>

\* code_info[name]
CodeInfo(sym, data) ==
    [declarator |-> IF IsTypeinfoName(sym) THEN <<"const unsigned char []">>
                    ELSE [i \in 1..Len(data) |-> c_types(data[i][1])],
     vals       |-> [i \in 1..Len(data) |-> SlotInitializer(data[i])]]

\* "sym_name, addend = val[...]" raises ValueError for a relocation whose
\* target cell was empty: collect_relocs leaves "" there, not a pair.
UnpackFails ==
    \E n \in DOMAIN cls_data : \E k \in 1..Len(cls_data[n]) :
        cls_data[n][k][1] = "reloc" /\ cls_data[n][k][2].Target = <<>>

\* generate_vtables, called inside the "with" of <suffix>.init.c after the
\* init text was written, and the write of its text.
GenerateVtables ==
    /\ pc = "generate_vtables"
    /\ IF UnpackFails
       THEN /\ pc' = "error"
            /\ err' = "ValueError"
            /\ UNCHANGED <<externs, code_info, init_file>>
       ELSE LET ext  == ExternsOfNames(SortedNames(DOMAIN cls_data), {}, <<>>)
                info == [n \in DOMAIN cls_syms |-> CodeInfo(cls_syms[n], cls_data[n])]
            IN  /\ externs' = ext
                /\ code_info' = info
                /\ init_file' = Append(init_file, [tpl |-> "vtables", externs |-> ext,
                                                   code_info |-> info])
                /\ pc' = "done"
                /\ UNCHANGED err
    /\ UNCHANGED <<warnings, no_weak_symbols, visibility, symbol_list, ptr_size,
                   symbol_prefix, nlines, toc, syms, syms_set, header_seen, vtables,
                   created, all_funs, funs, tramp_file, defVars>>
    /\ UNCHANGED <<secs, cls_syms, rels, reloc_types, bites, cls_data>>

\* ------------------------------------------------- inputs of the def reader

MaxDefLines == 4   \* lines of the def file

lExports   == <<"E", "X", "P", "O", "R", "T", "S", "\n">>
lIndented  == <<" ", "E", "X", "P", "O", "R", "T", "S", "\n">>
lIdentA    == <<" ", "a", "\n">>
lIdentB    == <<" ", " ", "b", " ", "\n">>
lBare      == <<"c", "\n">>
lComment   == <<" ", ";", "c", "\n">>
lBlank     == <<"\n">>

DefLines == {lExports, lIndented, lIdentA, lIdentB, lBare, lComment, lBlank}

DefFiles == UNION {[1..n -> DefLines] : n \in 0..MaxDefLines}

\* ------------------------------------------------------ collect_def_exports

\* \s
IsSpace(c) == c \in {" ", "\n", "\t", "\r"}

\* [A-Za-z0-9_]
IsIdentChar(c) ==
    \/ c = "_"
    \/ Ord(c) \in 48..57
    \/ Ord(c) \in 65..90
    \/ Ord(c) \in 97..122

\* The number of whitespace characters at the head of s.
RECURSIVE SpaceRun(_)
SpaceRun(s) == IF s # <<>> /\ IsSpace(Head(s)) THEN 1 + SpaceRun(Tail(s)) ELSE 0

\* The number of identifier characters at the head of s.
RECURSIVE IdentRun(_)
IdentRun(s) == IF s # <<>> /\ IsIdentChar(Head(s)) THEN 1 + IdentRun(Tail(s)) ELSE 0

Drop(s, n) == SubSeq(s, n + 1, Len(s))

RECURSIVE Reverse(_)
Reverse(s) == IF s = <<>> THEN <<>> ELSE Append(Reverse(Tail(s)), Head(s))

\* line.strip()
Strip(line) ==
    LET left == Drop(line, SpaceRun(line))
    IN  Reverse(Drop(Reverse(left), SpaceRun(Reverse(left))))

\* re.match(r"^\s*;", line)
IsCommentLine(line) ==
    LET rest == Drop(line, SpaceRun(line))
    IN  rest # <<>> /\ Head(rest) = ";"

\* m = re.match(r"^\s+([A-Za-z0-9_]+)\s*$", line): m[1], or <<>> when m is None
IdentOf(line) ==
    LET ws    == SpaceRun(line)
        rest  == Drop(line, ws)
        n     == IdentRun(rest)
        after == Drop(rest, n)
    IN  IF ws >= 1 /\ n >= 1 /\ SpaceRun(after) = Len(after)
        THEN SubSeq(rest, 1, n)
        ELSE <<>>

DefSym(name) ==
    [Name |-> name, Bind |-> "GLOBAL", Type |-> "FUNC", Ndx |-> "0",
     Default |-> TRUE, Version |-> None, Size |-> 0, Visibility |-> "DEFAULT"]

\* What the inner loop does with the line it popped: "skip", "symbol" or "break".
InnerStep(line) ==
    IF IsCommentLine(line) THEN "skip"
    ELSE IF IdentOf(line) = <<>> THEN "break"
    ELSE "symbol"

\* The line that ends the block is not put back.
AfterBreak_Dropped(rest, line) == rest

\* The stack after the inner loop met a line that ends the block.
AfterBreak(rest, line) == Append(rest, line)

\* One iteration of the outer loop up to its test of the line.
DefOuterLine ==
    /\ pc = "def_exports"
    /\ ~in_block
    /\ lines # <<>>
    /\ lines' = SubSeq(lines, 1, Len(lines) - 1)
    /\ in_block' = (Strip(lines[Len(lines)]) = Strip(lExports))
    /\ UNCHANGED <<pc, err, warnings, def_file, mainVars, vtVars>>

\* One iteration of the inner loop.
DefInnerLine ==
    /\ pc = "def_exports"
    /\ in_block
    /\ lines # <<>>
    /\ LET line == lines[Len(lines)]
           rest == SubSeq(lines, 1, Len(lines) - 1)
       IN  CASE InnerStep(line) = "skip" ->
                    /\ lines' = rest
                    /\ UNCHANGED <<in_block, syms>>
             [] InnerStep(line) = "break" ->
                    /\ lines' = AfterBreak(rest, line)
                    /\ in_block' = FALSE
                    /\ UNCHANGED syms
             [] InnerStep(line) = "symbol" ->
                    /\ lines' = rest
                    /\ syms' = Append(syms, DefSym(IdentOf(line)))
                    /\ UNCHANGED in_block
    /\ UNCHANGED <<pc, err, warnings, def_file, vtVars>>
    /\ UNCHANGED <<no_weak_symbols, visibility, symbol_list, ptr_size, symbol_prefix,
                   nlines, toc, syms_set, header_seen, vtables, created, all_funs,
                   funs, tramp_file, init_file>>

\* Both loops have run out of lines: the warning, and the return.
DefEnd ==
    /\ pc = "def_exports"
    /\ lines = <<>>
    /\ warnings' = IF syms = <<>>
                   THEN Append(warnings, [kind |-> "failed to locate symbols",
                                          names |-> <<>>])
                   ELSE warnings
    /\ in_block' = FALSE
    /\ pc' = "done"
    /\ UNCHANGED <<err, lines, def_file, mainVars, vtVars>>

\* ------------------------------------------------- idle values of the stages

VtIdle ==
    /\ secs = <<>>
    /\ cls_syms = <<>>
    /\ rels = <<>>
    /\ reloc_types = {}
    /\ bites = <<>>
    /\ cls_data = <<>>
    /\ externs = <<>>
    /\ code_info = <<>>

DefIdle ==
    /\ lines = <<>>
    /\ def_file = <<>>
    /\ in_block = FALSE

MainIdle ==
    /\ no_weak_symbols = FALSE
    /\ visibility = <<>>
    /\ symbol_list = NoList
    /\ symbol_prefix = <<>>
    /\ nlines = 0
    /\ toc = None
    /\ syms = <<>>
    /\ syms_set = {}
    /\ header_seen = FALSE
    /\ created = {}
    /\ all_funs = {}
    /\ funs = <<>>
    /\ tramp_file = <<>>
    /\ init_file = <<>>

\* ------------------------------------------------------ specification Spec

Init ==
    /\ pc = "collect_syms"
    /\ err = ""
    /\ warnings = <<>>
    /\ no_weak_symbols \in BOOLEAN
    /\ visibility \in VisibilityMaps
    /\ symbol_list \in SymbolLists
    /\ ptr_size \in PointerSizes
    /\ symbol_prefix \in SymbolPrefixes
    /\ nlines = 0
    /\ toc = None
    /\ syms = <<>>
    /\ syms_set = {}
    /\ header_seen = FALSE
    /\ vtables = FALSE
    /\ created = {}
    /\ all_funs = {}
    /\ funs = <<>>
    /\ tramp_file = <<>>
    /\ init_file = <<>>
    /\ VtIdle
    /\ DefIdle

Next ==
    \/ \E line \in ReadelfLines : CollectSymsLine(line)
    \/ CollectSymsEnd
    \/ CollectFuns
    \/ EmitTable
    \/ EmitTramp
    \/ EmitInit
    \/ \E t \in Templates : MissingTemplate(t)
    \/ RunFails

Spec == Init /\ [][Next]_vars

\* ---------------------------------------------------- specification SpecVt

InitVt ==
    /\ pc = "cls_syms"
    /\ err = ""
    /\ warnings = <<>>
    /\ MainIdle
    /\ vtables = TRUE
    /\ ptr_size \in PointerSizes
    /\ secs \in SectionTables
    /\ reloc_types = SymbolRelocTypes
    /\ cls_syms = <<>>
    /\ rels = <<>>
    /\ bites = <<>>
    /\ cls_data = <<>>
    /\ externs = <<>>
    /\ code_info = <<>>
    /\ DefIdle

NextVt ==
    \/ \E s \in ClassSymbols(ptr_size) : AddClassSym(s)
    \/ ReadUnrelocatedData
    \/ \E r \in RelRows(ptr_size) : CollectRelocsRow(r)
    \/ CollectRelocatedData
    \/ EmitTable
    \/ EmitInit
    \/ GenerateVtables

SpecVt == InitVt /\ [][NextVt]_vars

\* --------------------------------------------------- specification SpecRun

\* A run with --vtables from the class symbols to the end of main, with the
\* failures of the tools and of the templates.
InitRun ==
    /\ pc = "cls_syms"
    /\ err = ""
    /\ warnings = <<>>
    /\ no_weak_symbols = FALSE
    /\ visibility = <<>>
    /\ symbol_list = NoList
    /\ symbol_prefix = <<>>
    /\ nlines = 0
    /\ toc = None
    /\ syms = <<>>
    /\ syms_set = {}
    /\ header_seen = FALSE
    /\ vtables = TRUE
    /\ created = {}
    /\ funs \in RunFuns
    /\ all_funs = SeqToSet(funs)
    /\ tramp_file = <<>>
    /\ init_file = <<>>
    /\ ptr_size \in PointerSizes
    /\ secs \in SectionTables
    /\ reloc_types = SymbolRelocTypes
    /\ cls_syms = <<>>
    /\ rels = <<>>
    /\ bites = <<>>
    /\ cls_data = <<>>
    /\ externs = <<>>
    /\ code_info = <<>>
    /\ DefIdle

NextRun ==
    \/ \E s \in RunClassSymbols(ptr_size) : AddClassSym(s)
    \/ ReadUnrelocatedData
    \/ \E r \in RunRelRows(ptr_size) : CollectRelocsRow(r)
    \/ CollectRelocatedData
    \/ EmitTable
    \/ EmitTramp
    \/ EmitInit
    \/ \E t \in Templates : MissingTemplate(t)
    \/ GenerateVtables
    \/ RunFails

SpecRun == InitRun /\ [][NextRun]_vars

\* --------------------------------------------------- specification SpecDef

InitDef ==
    /\ pc = "def_exports"
    /\ err = ""
    /\ warnings = <<>>
    /\ MainIdle
    /\ vtables = FALSE
    /\ ptr_size = 8
    /\ VtIdle
    /\ def_file \in DefFiles
    /\ lines = Reverse(def_file)
    /\ in_block = FALSE

NextDef ==
    \/ DefOuterLine
    \/ DefInnerLine
    \/ DefEnd

SpecDef == InitDef /\ [][NextDef]_vars

\* -------------------------------------------- collect_relocs, line by line

MaxRelLines == 3   \* lines of the readelf -rW listing read as text

\* Column titles of the three headers readelf prints: the wide RELA header,
\* the wide REL header (no addends) and the FreeBSD header.
GnuTitles  == <<"Offset", "Info", "Type", "Symbol's Value", "Symbol's Name + Addend">>
GnuRelTitles == <<"Offset", "Info", "Type", "Symbol's Value", "Symbol's Name">>
BsdTitles  == <<"r_offset", "r_info", "r_type", "st_value", "st_name + r_addend">>

\* The rename table of the FreeBSD branch.
BsdRename(title) ==
    CASE title = "r_offset" -> "Offset"
      [] title = "r_info" -> "Info"
      [] title = "r_type" -> "Type"
      [] title = "st_value" -> "Symbol's Value"
      [] title = "st_name + r_addend" -> "Symbol's Name + Addend"

sp     == <<" ">>
wOff   == <<"2", "0">>
wInfo  == <<"1">>
wType  == <<"R", "_", "A", "B", "S">>
wValue == <<"0">>
wPlus  == <<"+">>
wTen   == <<"1", "0">>
wAbc   == <<"a", "b", "c">>

\* A row of the listing with the given text after the fourth column.
RowText(tail) == wOff \o sp \o sp \o wInfo \o sp \o wType \o sp \o sp \o wValue \o tail

RelRowTexts ==
    { RowText(sp \o nExt \o sp \o wPlus \o sp \o wTen),    \* ext + 10
      RowText(sp \o nExt \o wPlus \o wTen),                \* ext+10
      RowText(sp \o nExt),                                 \* ext
      RowText(sp \o wAbc),                                 \* abc
      sp \o RowText(sp \o nExtV \o sp \o wPlus \o sp \o wValue),   \* ext@V + 0
      RowText(<<>>) }                                      \* no target cell

RelLines ==
    {[kind |-> "row", text |-> t] : t \in RelRowTexts}
      \cup {[kind |-> "header", titles |-> t] : t \in {GnuTitles, GnuRelTitles, BsdTitles}}
      \cup {[kind |-> "blank"], [kind |-> "none"], [kind |-> "mips"]}

\* The value of a hexadecimal digit, -1 for any other character.
HexDigit(c) ==
    CASE c = "0" -> 0 [] c = "1" -> 1 [] c = "2" -> 2 [] c = "3" -> 3
      [] c = "4" -> 4 [] c = "5" -> 5 [] c = "6" -> 6 [] c = "7" -> 7
      [] c = "8" -> 8 [] c = "9" -> 9
      [] c \in {"a", "A"} -> 10 [] c \in {"b", "B"} -> 11 [] c \in {"c", "C"} -> 12
      [] c \in {"d", "D"} -> 13 [] c \in {"e", "E"} -> 14 [] c \in {"f", "F"} -> 15
      [] OTHER -> -1

\* int(s, 16) for a text of digits: the number, or -1 where int raises
\* ValueError (an empty text, a character that is no hexadecimal digit).
RECURSIVE HexAcc(_, _)
HexAcc(s, acc) ==
    IF s = <<>> THEN acc
    ELSE IF HexDigit(Head(s)) = -1 THEN -1
    ELSE HexAcc(Tail(s), acc * 16 + HexDigit(Head(s)))

HexValue(s) == IF s = <<>> THEN -1 ELSE HexAcc(s, 0)

\* re.sub(r" \+ ", "+", line) that leaves the line as it is.
SubPlus_Kept(s) == s

\* re.sub(r" \+ ", "+", line)
RECURSIVE SubPlus(_)
SubPlus(s) ==
    IF s = <<>> THEN <<>>
    ELSE IF Len(s) >= 3 /\ s[1] = " " /\ s[2] = "+" /\ s[3] = " "
    THEN <<"+">> \o SubPlus(Drop(s, 3))
    ELSE <<Head(s)>> \o SubPlus(Tail(s))

RECURSIVE SplitWsAcc(_, _, _)
SplitWsAcc(s, cur, out) ==
    IF s = <<>> THEN Append(out, cur)
    ELSE IF IsSpace(Head(s))
    THEN SplitWsAcc(Drop(s, SpaceRun(s)), <<>>, Append(out, cur))
    ELSE SplitWsAcc(Tail(s), Append(cur, Head(s)), out)

\* re.split(r"\s+", line)
SplitWs(s) == SplitWsAcc(s, <<>>, <<>>)

RECURSIVE SplitPlusAcc(_, _, _)
SplitPlusAcc(s, cur, out) ==
    IF s = <<>> THEN Append(out, cur)
    ELSE IF Head(s) = "+"
    THEN SplitPlusAcc(Tail(s), <<>>, Append(out, cur))
    ELSE SplitPlusAcc(Tail(s), Append(cur, Head(s)), out)

\* text.split("+")
SplitPlus(s) == SplitPlusAcc(s, <<>>, <<>>)

\* make_toc, and the rename of the FreeBSD branch: column index -> title.
MakeToc(titles) ==
    IF titles[1] = "r_offset" THEN [i \in DOMAIN titles |-> BsdRename(titles[i])]
    ELSE titles

HexKeys == {"Offset", "Info"}
keyTarget == "Symbol's Name + Addend"
keyName   == "Symbol's Name"

\* parse_row before the conversion of the hexadecimal cells: title -> word,
\* "" for a column the row does not reach.
RowCells(words, t) ==
    [k \in SeqToSet(t) |->
        LET i == CHOOSE j \in DOMAIN t : t[j] = k
        IN  IF i <= Len(words) THEN words[i] ELSE <<>>]

\* parse_row(words, toc, ["Offset", "Info"])
parse_row(words, t) ==
    LET cells == RowCells(words, t)
    IN  [k \in DOMAIN cells |->
            IF k \in HexKeys /\ cells[k] # <<>> THEN HexValue(cells[k]) ELSE cells[k]]

\* The target cell as the row processing reads it: the cell of the column
\* "Symbol's Name + Addend", or the cell of "Symbol's Name" followed by "+0".
TargetText(cells) ==
    IF keyTarget \notin DOMAIN cells /\ keyName \in DOMAIN cells
    THEN cells[keyName] \o <<"+", "0">>
    ELSE cells[keyTarget]

\* The row branch of collect_relocs for a stripped line: the relocation, and
\* whether int() raised ValueError on the way.
ParseRelRow(line, t) ==
    LET words  == SplitWs(SubPlus(line))
        cells  == RowCells(words, t)
        rel    == parse_row(words, t)
        text   == TargetText(cells)
        p0     == SplitPlus(text)
        p      == IF Len(p0) = 1 THEN << <<>>, p0[1] >> ELSE p0
        target == IF text = <<>> THEN <<>> ELSE <<p[1], HexValue(p[2])>>
    IN  [failed |-> \/ \E k \in HexKeys : cells[k] # <<>> /\ HexValue(cells[k]) = -1
                    \/ text # <<>> /\ HexValue(p[2]) = -1,
         rel    |-> [k \in DOMAIN rel \cup {keyTarget} |->
                        IF k = keyTarget THEN target ELSE rel[k]]]

\* The variables collect_relocs leaves alone.
relFrame == <<warnings, no_weak_symbols, visibility, symbol_list, ptr_size,
              symbol_prefix, syms, syms_set, header_seen, vtables, created,
              all_funs, funs, tramp_file, init_file, secs, cls_syms, reloc_types,
              bites, cls_data, externs, code_info, defVars>>

\* One iteration of the loop over out.splitlines() in collect_relocs.
CollectRelocsLine(line) ==
    /\ pc = "parse_relocs"
    /\ nlines < MaxRelLines
    /\ nlines' = nlines + 1
    /\ CASE line.kind = "blank" ->
              /\ toc' = None
              /\ UNCHANGED <<rels, pc, err>>
         [] line.kind = "none" ->
              /\ rels' = <<>>
              /\ pc' = "done"
              /\ UNCHANGED <<toc, err>>
         [] line.kind = "mips" ->
              UNCHANGED <<toc, rels, pc, err>>
         [] line.kind = "header" ->
              IF toc # None
              THEN /\ pc' = "error"
                   /\ err' = "multiple headers in output of readelf"
                   /\ UNCHANGED <<toc, rels>>
              ELSE /\ toc' = MakeToc(line.titles)
                   /\ UNCHANGED <<rels, pc, err>>
         [] line.kind = "row" ->
              IF toc # None
              THEN LET r == ParseRelRow(Strip(line.text), toc)
                   IN  IF r.failed
                       THEN /\ pc' = "error"
                            /\ err' = "ValueError"
                            /\ UNCHANGED <<toc, rels>>
                       ELSE /\ rels' = Append(rels, r.rel)
                            /\ UNCHANGED <<toc, pc, err>>
              ELSE UNCHANGED <<toc, rels, pc, err>>
    /\ UNCHANGED relFrame

\* The end of the listing: the check after the loop, and the return.
CollectRelocsEnd ==
    /\ pc = "parse_relocs"
    /\ IF toc = None
       THEN /\ pc' = "error"
            /\ err' = "failed to analyze relocations"
       ELSE /\ pc' = "done"
            /\ UNCHANGED err
    /\ UNCHANGED <<nlines, toc, rels>>
    /\ UNCHANGED relFrame

\* --------------------------------------------------- specification SpecRel

InitRel ==
    /\ pc = "parse_relocs"
    /\ err = ""
    /\ warnings = <<>>
    /\ MainIdle
    /\ vtables = TRUE
    /\ ptr_size = 8
    /\ VtIdle
    /\ DefIdle

NextRel ==
    \/ \E line \in RelLines : CollectRelocsLine(line)
    \/ CollectRelocsEnd

SpecRel == InitRel /\ [][NextRel]_vars

\* ------------------------------------------------------- claims under Spec

Emitted == pc \in {"emit_table", "emit_tramp", "done"}

\* The names the emitted files carry: the function list, the trampolines'
\* symbols and sym_names.
EmittedNames ==
    SeqToSet(funs)
      \cup (IF init_file = <<>> THEN {} ELSE SeqToSet(init_file[1].sym_names))

\* C1: every name of the emitted function list belongs to a collected symbol
\* with bind GLOBAL or WEAK, visibility not HIDDEN, type FUNC, a section index
\* other than UND, the default version and a name other than "", "_init",
\* "_fini"; with --no-weak-symbols that symbol is not WEAK. With and without
\* a user symbol list.
C1_FunsAreExportedFuncs ==
    Emitted =>
        \A n \in EmittedNames :
            \E j \in 1..Len(syms) :
                /\ syms[j].Name = n
                /\ syms[j].Bind \in {"GLOBAL", "WEAK"}
                /\ syms[j].Visibility # "HIDDEN"
                /\ syms[j].Type = "FUNC"
                /\ syms[j].Ndx # "UND"
                /\ syms[j].Default = TRUE
                /\ syms[j].Name \notin {<<>>, nInit, nFini}
                /\ (no_weak_symbols => syms[j].Bind # "WEAK")

\* C1 witness: a run with --no-weak-symbols and a user list that ends with
\* the global function a in the list, after a row named b was collected too.
C1_Witness ==
    /\ pc = "done"
    /\ no_weak_symbols
    /\ symbol_list = UserList(<<nB, nA>>)
    /\ funs = <<nA>>
    /\ nB \in syms_set

\* C2: the jump-table template is instantiated once, with table_size =
\* P * (N + 1); the trampoline template N times, the i-th instance with sym =
\* prefix + name_i, offset = i * P, number = i; so every offset is a multiple
\* of P, the offsets are pairwise distinct and the largest one lies strictly
\* below table_size - P.
C2_TableAndTrampolines ==
    pc = "done" =>
        LET N == Len(funs)
            P == ptr_size
            tramp(i) == tramp_file[i + 2]
        IN  /\ Len(tramp_file) = N + 1
            /\ tramp_file[1].tpl = "table"
            /\ tramp_file[1].table_size = P * (N + 1)
            /\ \A k \in 2..Len(tramp_file) : tramp_file[k].tpl = "trampoline"
            /\ \A i \in 0..(N - 1) :
                  /\ tramp(i).sym = symbol_prefix \o funs[i + 1]
                  /\ tramp(i).offset = i * P
                  /\ tramp(i).number = i
                  /\ tramp(i).offset % P = 0
                  /\ tramp(i).offset < tramp_file[1].table_size - P
            /\ \A i, j \in 0..(N - 1) : i # j => tramp(i).offset # tramp(j).offset

\* C2 witness: a finished run with two functions and a symbol prefix.
C2_Witness ==
    /\ pc = "done"
    /\ Len(funs) = 2
    /\ symbol_prefix # <<>>
    /\ Len(tramp_file) = 3

\* out is the subsequence of L, in L's order, of the entries that are in F.
IsFilteredSubsequence(out, L, F) ==
    \E idx \in [1..Len(out) -> 1..Len(L)] :
        /\ \A i, j \in 1..Len(out) : i < j => idx[i] < idx[j]
        /\ \A i \in 1..Len(out) : out[i] = L[idx[i]]
        /\ \A j \in 1..Len(L) : (L[j] \in F) <=> (\E i \in 1..Len(out) : idx[i] = j)

\* C9: with a user list L the function list is the subsequence of L, in L's
\* order, of the names in the function set F; a name of L outside F is named
\* in a warning and is no fatal error; without a list the function list is F
\* sorted ascending.
C9_UserListFilter ==
    Emitted =>
        LET L == ReadSymbolList(symbol_list).names
            F == all_funs
        IN  IF ~symbol_list.given
            THEN /\ SeqToSet(funs) = F
                 /\ Len(funs) = Cardinality(F)
                 /\ \A i, j \in 1..Len(funs) : i < j => StrLess(funs[i], funs[j])
            ELSE /\ IsFilteredSubsequence(funs, L, F)
                 /\ err = ""
                 /\ \A j \in 1..Len(L) :
                       L[j] \notin F =>
                           \E w \in 1..Len(warnings) :
                               /\ warnings[w].kind = "missing functions"
                               /\ L[j] \in SeqToSet(warnings[w].names)

\* C9 witness: the list names c, b, a, the library has the functions a and b
\* only: the list is b, a and the warning names c.
C9_Witness ==
    /\ pc = "done"
    /\ symbol_list = UserList(<<nC, nB, nA>>)
    /\ all_funs = {nA, nB}
    /\ funs = <<nB, nA>>
    /\ \E w \in 1..Len(warnings) :
          warnings[w] = [kind |-> "missing functions", names |-> <<nC>>]

\* C9 witness without a list: two functions, sorted.
C9_WitnessNoList ==
    /\ pc = "done"
    /\ symbol_list = NoList
    /\ funs = <<nA, nB>>

\* ----------------------------------------------------- claims under SpecVt

BytesRead  == vtables /\ pc \in {"collect_relocs", "emit_table", "emit_tramp",
                                  "generate_vtables", "done"}
Relocated  == vtables /\ pc \in {"emit_table", "emit_tramp", "generate_vtables", "done"}

\* C3: the bytes read for a class symbol in its unique section S are the
\* sym.size bytes of the file from S.file_offset + (sym.value - S.address).
C3_BytesAtSymbolPosition ==
    BytesRead =>
        \A n \in DOMAIN cls_syms :
            LET sym == cls_syms[n]
                S   == SectionsOf(sym, secs)[1]
            IN  bites[n] = FileRead(S.Off + (sym.Value - S.Address), sym.Size)

\* The accepted relocations of the listing that fall into slot k (from 0) of sym.
HitsOf(sym, k, rs) ==
    {j \in 1..Len(rs) :
        /\ rs[j].Type \in reloc_types
        /\ sym.Value <= rs[j].Offset
        /\ rs[j].Offset < sym.Value + sym.Size
        /\ (rs[j].Offset - sym.Value) \div ptr_size = k}

\* C4: for a class symbol that is no typeinfo name, every slot k without an
\* overlaying relocation is Offset(w), w the little-endian value of the raw
\* bytes at [k * pointer_size, (k + 1) * pointer_size), for k = 0 and beyond.
C4_SlotIsWordAtItsPosition ==
    Relocated =>
        \A n \in DOMAIN cls_data :
            ~IsTypeinfoName(cls_syms[n]) =>
                \A k \in 0..(Len(cls_data[n]) - 1) :
                    HitsOf(cls_syms[n], k, rels) = {} =>
                        /\ cls_data[n][k + 1][1] = "offset"
                        /\ cls_data[n][k + 1][2] =
                              FromBytesLittle(PySlice(bites[n], k * ptr_size,
                                                      (k + 1) * ptr_size))

\* n = ceil(size / P)
IsCeilDiv(n, size, P) == n * P >= size /\ (n - 1) * P < size /\ n >= 0

\* C5: the slot sequence of a class symbol whose raw bytes have length
\* sym.size has ceil(size / pointer_size) slots for a vtable or typeinfo and
\* size Byte slots for a typeinfo name, also for a size that is no multiple
\* of pointer_size and for size 0; the emitted fields and initializers are as
\* many.
C5_SlotCount ==
    /\ Relocated =>
          \A n \in DOMAIN cls_data :
              LET sym == cls_syms[n]
              IN  Len(bites[n]) = sym.Size =>
                      IF sym.Demangled = "typeinfo name for C"
                      THEN /\ Len(cls_data[n]) = sym.Size
                           /\ \A k \in 1..Len(cls_data[n]) : cls_data[n][k][1] = "byte"
                      ELSE IsCeilDiv(Len(cls_data[n]), sym.Size, ptr_size)
    /\ pc = "done" =>
          \A n \in DOMAIN code_info :
              /\ Len(code_info[n].vals) = Len(cls_data[n])
              /\ cls_syms[n].Demangled # "typeinfo name for C" =>
                    Len(code_info[n].declarator) = Len(cls_data[n])

\* C5 witness: a vtable of size 0, a typeinfo of P + 3 bytes and a typeinfo
\* name of 3 bytes went through the synthesizer and the emission.
C5_Witness ==
    /\ pc = "done"
    /\ DOMAIN cls_syms = {nZTV, nZTI, nZTS}
    /\ cls_syms[nZTV].Size = 0
    /\ cls_syms[nZTI].Size = ptr_size + 3
    /\ cls_syms[nZTS].Size = 3
    /\ Len(cls_data[nZTI]) = 2
    /\ Len(code_info[nZTS].vals) = 3

\* C6: after the overlay of a symbol that is no typeinfo name, slot k is a
\* Reloc slot iff some relocation of an accepted type with an offset inside
\* the symbol falls into slot k, and then it carries the target of such a
\* relocation; every other slot is the Offset it was before. Relocations of
\* another type or outside the symbol change nothing.
C6_OverlayExact ==
    Relocated =>
        \A n \in DOMAIN cls_data :
            ~IsTypeinfoName(cls_syms[n]) =>
                \A k \in 0..(Len(cls_data[n]) - 1) :
                    LET slot == cls_data[n][k + 1]
                        hits == HitsOf(cls_syms[n], k, rels)
                    IN  IF hits # {}
                        THEN /\ slot[1] = "reloc"
                             /\ \E j \in hits : slot[2].Target = rels[j].Target
                        ELSE /\ slot[1] = "offset"
                             /\ slot = InitialSlots(cls_syms[n], bites[n], ptr_size)[k + 1]

\* C6 witness: slot 1 of the vtable is hit by an accepted relocation and by one
\* of another type; slot 0 stays an Offset.
C6_Witness ==
    /\ pc = "done"
    /\ nZTV \in DOMAIN cls_data
    /\ Len(cls_data[nZTV]) >= 2
    /\ \E i, j \in 1..Len(rels) :
          /\ rels[i].Offset = 32 + ptr_size /\ rels[i].Type = "R_ABS"
          /\ rels[j].Offset = 32 + ptr_size /\ rels[j].Type = "R_RELATIVE"
    /\ cls_data[nZTV][1][1] = "offset"
    /\ cls_data[nZTV][2][1] = "reloc"
    /\ cls_data[nZTV][2][2].Target = <<nExt, 0>>

\* The targets, stripped of their version, of the Reloc slots.
RelocTargets ==
    UNION { {StripVersion(cls_data[n][k][2].Target[1]) :
                k \in {i \in 1..Len(cls_data[n]) : cls_data[n][i][1] = "reloc"}} :
            n \in DOMAIN cls_data }

CountOf(q, x) == Cardinality({i \in 1..Len(q) : q[i] = x})

\* C7: a target that is a class symbol has no extern declaration; any other
\* target of a Reloc slot has exactly one, however many slots refer to it.
C7_OneExternPerTarget ==
    pc = "done" =>
        \A T \in RelocTargets :
            IF T \in DOMAIN cls_syms THEN CountOf(externs, T) = 0
            ELSE CountOf(externs, T) = 1

\* The orders in which n relocations can be applied: the permutations of 1..n
OrdersOf(n) == {f \in [1..n -> 1..n] : \A i, j \in 1..n : i # j => f[i] # f[j]}

\* The slot as the data model has it: Byte(b), Offset(w) or Reloc(symbol, addend).
SlotView(slot) == IF slot[1] = "reloc" THEN <<"reloc", slot[2].Target>> ELSE slot

SlotViews(data) == [k \in 1..Len(data) |-> SlotView(data[k])]

\* The slot sequence of sym when the relocation list is applied in the order f.
OverlayInOrder(sym, b, f) ==
    SlotViews(RelocatedData(sym, b, [i \in 1..Len(rels) |-> rels[f[i]]],
                            ptr_size, reloc_types).slots)

\* C8, as stated: any permutation of the relocation list gives the same slot
\* sequence, also when two accepted relocations with different targets fall
\* into one slot.
C8_OverlayCommutes ==
    Relocated =>
        \A n \in DOMAIN cls_data :
            \A f \in OrdersOf(Len(rels)) :
                OverlayInOrder(cls_syms[n], bites[n], f) = SlotViews(cls_data[n])

\* No two accepted relocations with different targets fall into one slot of sym.
NoConflict(sym) ==
    \A i, j \in 1..Len(rels) :
        ( /\ AcceptsReloc(rels[i], sym, reloc_types)
          /\ AcceptsReloc(rels[j], sym, reloc_types)
          /\ SlotIndex(rels[i], sym, ptr_size) = SlotIndex(rels[j], sym, ptr_size) )
        => rels[i].Target = rels[j].Target

\* C8, amended: any permutation of the relocation list gives the same slot
\* sequence, provided the accepted relocations that fall into one slot of the
\* symbol all carry the same target.
C8_OverlayCommutesWithoutConflict ==
    Relocated =>
        \A n \in DOMAIN cls_data :
            NoConflict(cls_syms[n]) =>
                \A f \in OrdersOf(Len(rels)) :
                    OverlayInOrder(cls_syms[n], bites[n], f) = SlotViews(cls_data[n])

\* C8 witness: two different relocations of one target fall into slot 0 of the
\* vtable.
C8_Witness ==
    /\ pc = "done"
    /\ nZTV \in DOMAIN cls_data
    /\ Len(cls_data[nZTV]) >= 2
    /\ \E i, j \in 1..Len(rels) :
          /\ i # j
          /\ rels[i].Offset = 32 /\ rels[j].Offset = 34
          /\ rels[i].Target = rels[j].Target
    /\ cls_data[nZTV][1][1] = "reloc"

\* ---------------------------------------------------- claims under SpecDef

\* Whether the reader is inside an EXPORTS block after the first i lines of
\* the file: a block opens at a line that is EXPORTS once stripped, goes on
\* over comment and identifier lines and closes at any other line, which may
\* itself open the next block.
RECURSIVE InsideAfter(_, _)
InsideAfter(file, i) ==
    IF i = 0 THEN FALSE
    ELSE LET line == file[i]
         IN  IF InsideAfter(file, i - 1) /\ (IsCommentLine(line) \/ IdentOf(line) # <<>>)
             THEN TRUE
             ELSE Strip(line) = <<"E", "X", "P", "O", "R", "T", "S">>

\* The lines that are identifier lines inside a block, by index.
ExportLines(file) ==
    {i \in 1..Len(file) :
        /\ InsideAfter(file, i - 1)
        /\ ~IsCommentLine(file[i])
        /\ IdentOf(file[i]) # <<>>}

\* C10: the reader yields one FUNC/GLOBAL/DEFAULT symbol, in file order, for
\* each identifier line inside an EXPORTS block and nothing else; blocks
\* accumulate, the line that closes a block may open the next one; with no
\* symbol at all there is a warning and no abort.
C10_DefExports ==
    pc = "done" =>
        LET E == ExportLines(def_file)
        IN  /\ Len(syms) = Cardinality(E)
            /\ \A k \in 1..Len(syms) :
                  \E i \in E :
                      /\ Cardinality({j \in E : j < i}) = k - 1
                      /\ syms[k].Name = IdentOf(def_file[i])
                      /\ syms[k].Type = "FUNC"
                      /\ syms[k].Bind = "GLOBAL"
                      /\ syms[k].Visibility = "DEFAULT"
            /\ err = ""
            /\ (syms = <<>>) <=>
                  (\E w \in 1..Len(warnings) :
                      warnings[w].kind = "failed to locate symbols")

\* C10 witness: a block with a, closed by a second EXPORTS line that opens the
\* block with b.
C10_Witness ==
    /\ pc = "done"
    /\ def_file = <<lExports, lIdentA, lExports, lIdentB>>
    /\ Len(syms) = 2
    /\ syms[1].Name = <<"a">>
    /\ syms[2].Name = <<"b">>

\* ------------------------------------------- claims about the symbol table

\* While the table is the one collect_syms built (before the export filter).
Collecting == pc \in {"collect_syms", "select"}

\* The name stored for a printed name: the part before the first run of '@'.
StoredName(raw) == IF HasAt(raw) THEN SplitName(raw) ELSE raw

\* C11 as stated: no two symbols of the collected table have the same stored
\* name, and no stored name contains '@'.
C11_StoredNamesUnique ==
    Collecting =>
        /\ \A i, j \in 1..Len(syms) : i # j => syms[i].Name # syms[j].Name
        /\ \A i \in 1..Len(syms) : ~HasAt(syms[i].Name)

\* C11, amended: the collector drops every row whose name as printed, with
\* its @version suffix, was already seen, so the table holds exactly one
\* symbol for each distinct printed name that was accepted; its stored names
\* are the printed names cut at the first '@', and none contains '@'. (Two
\* printed names that differ only in the suffix each yield a symbol.)
C11_OneSymbolPerPrintedName ==
    Collecting =>
        /\ Len(syms) = Cardinality(syms_set)
        /\ {syms[i].Name : i \in 1..Len(syms)} = {StoredName(raw) : raw \in syms_set}
        /\ \A i \in 1..Len(syms) : ~HasAt(syms[i].Name)
        /\ <<>> \notin syms_set

\* C11 witness: the rows a@@V and a@V were both collected, as two symbols
\* named a.
C11_Witness ==
    /\ Collecting
    /\ syms_set = {<<"a", "@", "@", "V">>, <<"a", "@", "V">>}
    /\ Len(syms) = 2
    /\ syms[1].Name = nA
    /\ syms[2].Name = nA

\* C12: the collector aborts with "failed to analyze symbols" exactly when no
\* header line was seen anywhere in the listing; a listing in which a header
\* was seen never triggers this abort, whatever follows the header, a blank
\* last line included.
C12_AbortIffNoHeader ==
    /\ err = "failed to analyze symbols" => ~header_seen
    /\ pc \notin {"collect_syms", "error"} => header_seen

\* ------------------------------------------------------ claims under SpecRel

\* The number of characters before the first white space of s.
RECURSIVE WordRun(_)
WordRun(s) == IF s # <<>> /\ ~IsSpace(Head(s)) THEN 1 + WordRun(Tail(s)) ELSE 0

\* What is printed after the first n columns of a row, without the white
\* space around it.
RECURSIVE AfterWords(_, _)
AfterWords(s, n) ==
    IF n = 0 THEN Strip(s)
    ELSE LET t == Drop(s, SpaceRun(s))
         IN  AfterWords(Drop(t, WordRun(t)), n - 1)

\* The target cell of a row as the listing prints it, "A + B" in one piece.
PrintedCell(line) == AfterWords(line.text, 4)

HasPlus(cell) == \E i \in 1..Len(cell) : cell[i] = "+"

FirstPlus(cell) == CHOOSE i \in 1..Len(cell) :
                      cell[i] = "+" /\ \A j \in 1..(i - 1) : cell[j] # "+"

\* (A, B read as hexadecimal) for a cell "A + B" or "A+B".
PairOf(cell) ==
    <<Strip(SubSeq(cell, 1, FirstPlus(cell) - 1)),
      HexValue(Strip(SubSeq(cell, FirstPlus(cell) + 1, Len(cell))))>>

\* A step that reads the row under a header.
RowStep(line) == line.kind = "row" /\ toc # None /\ CollectRelocsLine(line)

\* The relocation the step has appended.
Appended == rels'[Len(rels')]

\* C13 as stated: for every row with a non-empty target cell the collector
\* stores the target as a pair: a cell "A + B" or "A+B" gives (A, B read as
\* hexadecimal), a cell with a symbol name only gives (that name, 0), under
\* either header dialect.
C13_TargetPairs ==
    [][\A line \in RelLines :
          (RowStep(line) /\ PrintedCell(line) # <<>>) =>
              /\ pc' # "error"
              /\ Len(rels') = Len(rels) + 1
              /\ Appended[keyTarget] =
                    IF HasPlus(PrintedCell(line)) THEN PairOf(PrintedCell(line))
                    ELSE <<PrintedCell(line), 0>>]_vars

\* The last column of the header in force carries the addend.
HasAddendColumn == toc # None /\ \E i \in DOMAIN toc : toc[i] = keyTarget

\* C13, amended: a cell "A + B" or "A+B" gives (A, B read as hexadecimal)
\* under every header. A cell with no '+' gives (that cell, 0) only under a
\* header whose column is "Symbol's Name"; under the GNU and the FreeBSD
\* header, whose column is "Symbol's Name + Addend", the cell is read as the
\* addend of an empty symbol name, ("", cell read as hexadecimal), and the run
\* fails with ValueError when the cell is not hexadecimal.
C13_TargetPairsByHeader ==
    [][\A line \in RelLines :
          (RowStep(line) /\ PrintedCell(line) # <<>>) =>
              LET cell == PrintedCell(line)
                  want == IF HasPlus(cell) THEN PairOf(cell)
                          ELSE IF HasAddendColumn THEN << <<>>, HexValue(cell) >>
                          ELSE <<cell, 0>>
              IN  IF want[2] = -1
                  THEN pc' = "error" /\ err' = "ValueError" /\ rels' = rels
                  ELSE /\ pc' = pc
                       /\ Len(rels') = Len(rels) + 1
                       /\ Appended[keyTarget] = want
                       /\ Appended["Offset"] = 32]_vars

\* C13 witness: under the GNU header the rows "ext + 10" and "abc" were
\* stored as (ext, 16) and ("", 2748).
C13_Witness ==
    /\ pc = "parse_relocs"
    /\ Len(rels) = 2
    /\ HasAddendColumn
    /\ rels[1][keyTarget] = <<nExt, 16>>
    /\ rels[2][keyTarget] = << <<>>, 2748 >>

\* --------------------------------------------- claims about the emitted files

\* C14: the emitted function list never contains the same name twice, for
\* any symbol table and any user symbol list, so no two trampolines define
\* the same symbol and no name occupies two slots of the jump table.
C14_NoRepeatedFunction ==
    /\ Emitted => \A i, j \in 1..Len(funs) : i # j => funs[i] # funs[j]
    /\ \A i, j \in 2..Len(tramp_file) : i # j => tramp_file[i].sym # tramp_file[j].sym

\* C15 as stated: whenever a run ends in a fatal error or an uncaught failure,
\* neither <suffix>.tramp.S nor <suffix>.init.c has been created or partially
\* written.
C15_NoOutputOnFailure ==
    pc = "error" => created = {} /\ tramp_file = <<>> /\ init_file = <<>>

\* C15, amended: a run that ends in an error raised before the emission (a
\* tool failure, a symbol that is not in exactly one section, a failed
\* assertion of the overlay) has created neither file. A missing template and
\* a failure while generating the vtable text come after output files were
\* opened: a missing table.S.tpl leaves an empty <suffix>.tramp.S, a missing
\* trampoline.S.tpl leaves it with the table only, a missing init.c.tpl leaves
\* the complete <suffix>.tramp.S and an empty <suffix>.init.c, and a failure in
\* generate_vtables leaves the complete <suffix>.tramp.S and a <suffix>.init.c
\* that holds the init text without the vtable text.
C15_NoOutputBeforeEmission ==
    pc = "error" =>
        CASE err = "FileNotFoundError" ->
                 \/ /\ created = {fTramp}
                    /\ tramp_file = <<>> \/ tramp_file = <<TableText(Len(funs))>>
                    /\ init_file = <<>>
                 \/ /\ created = {fTramp, fInit}
                    /\ Len(tramp_file) = Len(funs) + 1
                    /\ init_file = <<>>
          [] err = "ValueError" ->
                 /\ created = {fTramp, fInit}
                 /\ Len(tramp_file) = Len(funs) + 1
                 /\ Len(init_file) = 1
                 /\ init_file[1].tpl = "init"
          [] OTHER ->
                 created = {} /\ tramp_file = <<>> /\ init_file = <<>>

\* C15 witness: generate_vtables failed on a relocation with an empty target
\* after both files were opened and the init text was written.
C15_Witness ==
    /\ pc = "error"
    /\ err = "ValueError"
    /\ created = {fTramp, fInit}
    /\ funs = <<nA>>
    /\ Len(tramp_file) = 2
    /\ Len(init_file) = 1

\* ------------------------------------------ claims about the overlay's assertion

\* C16: the assertion "i < len(data[name])" of the overlay never fails: for
\* any class symbol whose raw bytes have length sym.size > 0, any pointer
\* size and any accepted relocation with sym.value <= offset < sym.value +
\* sym.size, the index (offset - sym.value) div pointer_size is a valid index
\* of the slot sequence, also when sym.size is no multiple of the pointer size.
C16_AssertionHolds ==
    /\ err # "AssertionError"
    /\ BytesRead =>
          \A n \in DOMAIN cls_syms :
              LET sym == cls_syms[n]
                  b   == bites[n]
              IN  (~IsTypeinfoName(sym) /\ sym.Size > 0 /\ Len(b) = sym.Size) =>
                      \A j \in 1..Len(rels) :
                          AcceptsReloc(rels[j], sym, reloc_types) =>
                              /\ SlotIndex(rels[j], sym, ptr_size) >= 0
                              /\ SlotIndex(rels[j], sym, ptr_size)
                                    < Len(InitialSlots(sym, b, ptr_size))

\* C16 witness: a vtable of 2 * pointer_size + 1 bytes whose third slot, the
\* one of the last byte, was replaced by a relocation.
C16_Witness ==
    /\ pc = "done"
    /\ nZTV \in DOMAIN cls_data
    /\ cls_syms[nZTV].Size = 2 * ptr_size + 1
    /\ Len(bites[nZTV]) = 2 * ptr_size + 1
    /\ Len(cls_data[nZTV]) = 3
    /\ cls_data[nZTV][3][1] = "reloc"
    /\ cls_data[nZTV][3][2].Offset = 32 + 2 * ptr_size

====
